---- MODULE Spec2Model ----
(***************************************************************************)
(* Line classifier of tokei (src/language/language_type.rs): one parse of  *)
(* one file.  Bytes are one-character strings, lines and markers are       *)
(* sequences of bytes.  The window scan is modelled one loop iteration per *)
(* step; the lines of the file are drawn one at a time as the line         *)
(* iterator yields them.                                                   *)
(***************************************************************************)
EXTENDS Integers, Sequences, FiniteSets, TLC

\* ------------------------------------------------------------------ bounds
\* longest line content (bytes before the terminator) drawn exhaustively
MaxLen == 3
\* most lines in a file
MaxLines == 2

\* ------------------------------------------------------------ byte strings
None == <<>>

NL == "\n"

Whitespace == {" ", NL}

StartsWith(w, m) == Len(w) >= Len(m) /\ SubSeq(w, 1, Len(m)) = m

\* the suffix of line from 0-based offset i: &line[i..]
Window(line, i) == SubSeq(line, i + 1, Len(line))

ContainsSlice(line, m) == \E k \in 0..Len(line) : StartsWith(Window(line, k), m)

RECURSIVE TrimStart(_)
TrimStart(s) ==
    IF s # <<>> /\ Head(s) \in Whitespace THEN TrimStart(Tail(s)) ELSE s

RECURSIVE TrimEnd(_)
TrimEnd(s) ==
    IF s # <<>> /\ s[Len(s)] \in Whitespace THEN TrimEnd(SubSeq(s, 1, Len(s) - 1)) ELSE s

Trim(s) == TrimEnd(TrimStart(s))

\* ------------------------------------------------------- syntax rule table
Slashes == <<"/", "/">>
BlockStart == <<"/", "*">>
BlockEnd == <<"*", "/">>
DQuote == <<"\"">>
TripleQuote == <<"\"", "\"", "\"">>
Hash == <<"#">>
Bang == <<"!">>

Languages == {"Rust", "C", "Python", "FortranModern", "Text"}

SyntaxRules(l) ==
    CASE l = "Rust" ->
           [is_blank |-> FALSE, is_fortran |-> FALSE, allows_nested |-> TRUE,
            line_comments |-> <<Slashes>>,
            multi_line_comments |-> << <<BlockStart, BlockEnd>> >>,
            quotes |-> <<DQuote>>, doc_quotes |-> <<>>]
      [] l = "C" ->
           [is_blank |-> FALSE, is_fortran |-> FALSE, allows_nested |-> FALSE,
            line_comments |-> <<Slashes>>,
            multi_line_comments |-> << <<BlockStart, BlockEnd>> >>,
            quotes |-> <<DQuote>>, doc_quotes |-> <<>>]
      [] l = "Python" ->
           [is_blank |-> FALSE, is_fortran |-> FALSE, allows_nested |-> FALSE,
            line_comments |-> <<Hash>>,
            multi_line_comments |-> <<>>,
            quotes |-> <<DQuote>>, doc_quotes |-> << <<TripleQuote, TRUE>> >>]
      [] l = "FortranModern" ->
           [is_blank |-> FALSE, is_fortran |-> TRUE, allows_nested |-> FALSE,
            line_comments |-> <<Bang>>,
            multi_line_comments |-> <<>>,
            quotes |-> <<DQuote>>, doc_quotes |-> <<>>]
      [] OTHER ->
           [is_blank |-> TRUE, is_fortran |-> FALSE, allows_nested |-> FALSE,
            line_comments |-> <<>>,
            multi_line_comments |-> <<>>,
            quotes |-> <<>>, doc_quotes |-> <<>>]

\* the table, built once
LanguageTable == [l \in Languages |-> SyntaxRules(l)]

is_blank(l) == LanguageTable[l].is_blank

\* the bytes a file of the language is drawn from
Alphabet(l) ==
    CASE l \in {"Rust", "C"} -> {"/", "*", "\"", "x", " "}
      [] l = "Python" -> {"\"", "#", "x", " "}
      [] l = "FortranModern" -> {"!", "\"", "x", " "}
      [] OTHER -> {"x"}


\* --------------------------------------------------------- SyntaxCounter
\* SyntaxCounter::new (parse_lines, line 151)
SyntaxCounterNew == [quote |-> None, quote_is_doc_quote |-> FALSE, stack |-> <<>>]

\* the result of a transition: n = 0 is "no match", n > 0 the bytes consumed
NoMatch(syn) == [n |-> 0, syntax |-> syn]

Matched(len, syn) == [n |-> len, syntax |-> syn]

\* the first marker of ms (a sequence of markers) that w starts with, or None
FirstMarker(ms, w) ==
    LET hits == {k \in 1..Len(ms) : StartsWith(w, ms[k])}
    IN IF hits = {} THEN None
       ELSE ms[CHOOSE k \in hits : \A j \in hits : k <= j]

Firsts(pairs) == [k \in 1..Len(pairs) |-> pairs[k][1]]

\* the end marker of the block comment opened by start
EndMarker(L, start) ==
    LET ps == L.multi_line_comments
    IN ps[CHOOSE k \in 1..Len(ps) : ps[k][1] = start][2]

RECURSIVE EscapesBefore(_, _)
\* the number of consecutive escape bytes right before 0-based offset i
EscapesBefore(line, i) ==
    IF i > 0 /\ line[i] = "\\" THEN 1 + EscapesBefore(line, i - 1) ELSE 0

Escaped(line, i) == EscapesBefore(line, i) % 2 = 1

\* all markers the fast path rejects a line for: quotes, doc quotes, block
\* comment delimiters
important_syntax(L) ==
    {L.quotes[k] : k \in 1..Len(L.quotes)}
    \cup {L.doc_quotes[k][1] : k \in 1..Len(L.doc_quotes)}
    \cup {L.multi_line_comments[k][1] : k \in 1..Len(L.multi_line_comments)}
    \cup {L.multi_line_comments[k][2] : k \in 1..Len(L.multi_line_comments)}

\* line comment markers and block comment start markers
start_of_comments(L) ==
    {L.line_comments[k] : k \in 1..Len(L.line_comments)}
    \cup {L.multi_line_comments[k][1] : k \in 1..Len(L.multi_line_comments)}

\* try_close_quote
parse_end_of_quote(L, syn, line, i) ==
    IF /\ syn.quote # None
       /\ StartsWith(Window(line, i), syn.quote)
       /\ ~Escaped(line, i)
    THEN Matched(Len(syn.quote), [syn EXCEPT !.quote = None])
    ELSE NoMatch(syn)

\* try_close_multi_line_comment
parse_end_of_multi_line(L, syn, line, i) ==
    IF /\ syn.stack # <<>>
       /\ StartsWith(Window(line, i), EndMarker(L, syn.stack[Len(syn.stack)]))
    THEN Matched(Len(EndMarker(L, syn.stack[Len(syn.stack)])),
                 [syn EXCEPT !.stack = SubSeq(syn.stack, 1, Len(syn.stack) - 1)])
    ELSE NoMatch(syn)

\* try_open_quote that opens a quote inside an open block comment too
parse_quote_InsideComment(L, syn, line, i) ==
    LET w == Window(line, i)
        doc == FirstMarker(Firsts(L.doc_quotes), w)
        plain == FirstMarker(L.quotes, w)
    IN IF syn.quote # None THEN NoMatch(syn)
       ELSE IF doc # None
            THEN Matched(Len(doc), [syn EXCEPT !.quote = doc, !.quote_is_doc_quote = TRUE])
       ELSE IF plain # None
            THEN Matched(Len(plain), [syn EXCEPT !.quote = plain, !.quote_is_doc_quote = FALSE])
       ELSE NoMatch(syn)

\* try_open_quote: doc quotes are tried before plain quotes
parse_quote(L, syn, line, i) ==
    LET w == Window(line, i)
        doc == FirstMarker(Firsts(L.doc_quotes), w)
        plain == FirstMarker(L.quotes, w)
    IN IF syn.quote # None \/ syn.stack # <<>> THEN NoMatch(syn)
       ELSE IF doc # None
            THEN Matched(Len(doc), [syn EXCEPT !.quote = doc, !.quote_is_doc_quote = TRUE])
       ELSE IF plain # None
            THEN Matched(Len(plain), [syn EXCEPT !.quote = plain, !.quote_is_doc_quote = FALSE])
       ELSE NoMatch(syn)

\* try_open_multi_line_comment
parse_multi_line_comment(L, syn, line, i) ==
    LET start == FirstMarker(Firsts(L.multi_line_comments), Window(line, i))
    IN IF syn.quote # None \/ start = None THEN NoMatch(syn)
       ELSE IF syn.stack = <<>> \/ L.allows_nested
            THEN Matched(Len(start), [syn EXCEPT !.stack = Append(@, start)])
       ELSE NoMatch(syn)

\* try_line_comment
parse_line_comment(L, syn, line, i) ==
    /\ syn.quote = None
    /\ syn.stack = <<>>
    /\ \E k \in 1..Len(L.line_comments) : StartsWith(Window(line, i), L.line_comments[k])

\* ------------------------------------------------------------ parse_basic
\* parse_basic without the important_syntax test
parse_basic_NoImportant(L, syn, line) ==
    ~ \/ syn.quote # None
      \/ syn.stack # <<>>

\* the guard of the fast path (lines 123-128): TRUE when parse_basic does not
\* return false
parse_basic(L, syn, line) ==
    ~ \/ syn.quote # None
      \/ syn.stack # <<>>
      \/ \E m \in important_syntax(L) : ContainsSlice(line, m)

\* what the fast path reports (lines 130-136)
BasicKind(L, line) ==
    IF \E k \in 1..Len(L.line_comments) : StartsWith(line, L.line_comments[k])
    THEN "comment"
    ELSE "code"

\* ------------------------------------------------------- the window loop
\* the loop locals and the scan state at the top of iteration i
LoopState(i_, skip_, ended_, syn) ==
    [i |-> i_, skip |-> skip_, ended_with_comments |-> ended_, syntax |-> syn,
     broke |-> FALSE]

\* closing checks of one offset (lines 186-188)
EndOfQuoteOrMultiLine(L, syn, line, i) ==
    LET q == parse_end_of_quote(L, syn, line, i)
    IN IF q.n > 0 THEN q ELSE parse_end_of_multi_line(L, q.syntax, line, i)

\* opening checks of one offset (lines 198-199)
QuoteOrMultiLine(L, syn, line, i) ==
    LET q == parse_quote(L, syn, line, i)
    IN IF q.n > 0 THEN q ELSE parse_multi_line_comment(L, q.syntax, line, i)

\* the arm taken when an open quote does not end the iteration
Branch_NoQuoteGuard(L, line, st) ==
    LET e == EndOfQuoteOrMultiLine(L, st.syntax, line, st.i)
        o == QuoteOrMultiLine(L, e.syntax, line, st.i)
    IN IF st.skip # 0 THEN "skip"
       ELSE IF e.n > 0 THEN "close"
       ELSE IF o.n > 0 THEN "open"
       ELSE IF parse_line_comment(L, o.syntax, line, st.i) THEN "linecomment"
       ELSE "none"

\* which arm of the loop body iteration st takes
Branch(L, line, st) ==
    LET e == EndOfQuoteOrMultiLine(L, st.syntax, line, st.i)
        o == QuoteOrMultiLine(L, e.syntax, line, st.i)
    IN IF st.skip # 0 THEN "skip"
       ELSE IF e.n > 0 THEN "close"
       ELSE IF e.syntax.quote # None THEN "inquote"
       ELSE IF o.n > 0 THEN "open"
       ELSE IF parse_line_comment(L, o.syntax, line, st.i) THEN "linecomment"
       ELSE "none"

\* one iteration with skip set to the whole length of the matched marker
WindowStep_SkipWhole(L, line, st) ==
    LET e == EndOfQuoteOrMultiLine(L, st.syntax, line, st.i)
        o == QuoteOrMultiLine(L, e.syntax, line, st.i)
        b == Branch(L, line, st)
    IN CASE b = "skip" -> [st EXCEPT !.skip = @ - 1, !.i = @ + 1]
         [] b = "close" ->
              [st EXCEPT !.ended_with_comments = TRUE, !.skip = e.n,
                         !.syntax = e.syntax, !.i = @ + 1]
         [] b = "inquote" ->
              [st EXCEPT !.ended_with_comments = FALSE, !.syntax = e.syntax, !.i = @ + 1]
         [] b = "open" ->
              [st EXCEPT !.ended_with_comments = FALSE, !.skip = o.n,
                         !.syntax = o.syntax, !.i = @ + 1]
         [] b = "linecomment" ->
              [st EXCEPT !.ended_with_comments = TRUE, !.syntax = o.syntax, !.broke = TRUE]
         [] OTHER ->
              [st EXCEPT !.ended_with_comments = FALSE, !.syntax = o.syntax, !.i = @ + 1]

\* one iteration whose line comment match does not leave the loop
WindowStep_NoBreak(L, line, st) ==
    LET e == EndOfQuoteOrMultiLine(L, st.syntax, line, st.i)
        o == QuoteOrMultiLine(L, e.syntax, line, st.i)
        b == Branch(L, line, st)
    IN CASE b = "skip" -> [st EXCEPT !.skip = @ - 1, !.i = @ + 1]
         [] b = "close" ->
              [st EXCEPT !.ended_with_comments = TRUE, !.skip = e.n - 1,
                         !.syntax = e.syntax, !.i = @ + 1]
         [] b = "inquote" ->
              [st EXCEPT !.ended_with_comments = FALSE, !.syntax = e.syntax, !.i = @ + 1]
         [] b = "open" ->
              [st EXCEPT !.ended_with_comments = FALSE, !.skip = o.n - 1,
                         !.syntax = o.syntax, !.i = @ + 1]
         [] b = "linecomment" ->
              [st EXCEPT !.ended_with_comments = TRUE, !.syntax = o.syntax, !.i = @ + 1]
         [] OTHER ->
              [st EXCEPT !.ended_with_comments = FALSE, !.syntax = o.syntax, !.i = @ + 1]

\* one iteration of 'window (lines 177-211)
WindowStep(L, line, st) ==
    LET e == EndOfQuoteOrMultiLine(L, st.syntax, line, st.i)
        o == QuoteOrMultiLine(L, e.syntax, line, st.i)
        b == Branch(L, line, st)
    IN CASE b = "skip" -> [st EXCEPT !.skip = @ - 1, !.i = @ + 1]
         [] b = "close" ->
              [st EXCEPT !.ended_with_comments = TRUE, !.skip = e.n - 1,
                         !.syntax = e.syntax, !.i = @ + 1]
         [] b = "inquote" ->
              [st EXCEPT !.ended_with_comments = FALSE, !.syntax = e.syntax, !.i = @ + 1]
         [] b = "open" ->
              [st EXCEPT !.ended_with_comments = FALSE, !.skip = o.n - 1,
                         !.syntax = o.syntax, !.i = @ + 1]
         [] b = "linecomment" ->
              [st EXCEPT !.ended_with_comments = TRUE, !.syntax = o.syntax, !.broke = TRUE]
         [] OTHER ->
              [st EXCEPT !.ended_with_comments = FALSE, !.syntax = o.syntax, !.i = @ + 1]

\* what iteration st, one that examines its offset, does there: the checks it
\* calls, in the order of the calls (lines 186-206), the check that matched
\* and the length of the marker it matched
Examined(L, line, st) ==
    LET eq == parse_end_of_quote(L, st.syntax, line, st.i)
        e == EndOfQuoteOrMultiLine(L, st.syntax, line, st.i)
        oq == parse_quote(L, e.syntax, line, st.i)
        o == QuoteOrMultiLine(L, e.syntax, line, st.i)
        b == Branch(L, line, st)
        closing == <<"end_of_quote">>
                   \o (IF eq.n = 0 THEN <<"end_of_multi_line">> ELSE <<>>)
        opening == <<"quote">>
                   \o (IF oq.n = 0 THEN <<"multi_line_comment">> ELSE <<>>)
    IN [at |-> st.i,
        checks |-> CASE b \in {"close", "inquote"} -> closing
                     [] b = "open" -> closing \o opening
                     [] OTHER -> closing \o opening \o <<"line_comment">>,
        matched |-> CASE b = "close" ->
                           IF eq.n > 0 THEN "end_of_quote" ELSE "end_of_multi_line"
                      [] b = "open" ->
                           IF oq.n > 0 THEN "quote" ELSE "multi_line_comment"
                      [] b = "linecomment" -> "line_comment"
                      [] OTHER -> "none",
        n |-> CASE b = "close" -> e.n
                [] b = "open" -> o.n
                [] OTHER -> 0]

LoopDone(line, st) == st.broke \/ st.i >= Len(line)

RECURSIVE RunWindow(_, _, _)
\* the whole loop over one line, from st
RunWindow(L, line, st) ==
    IF LoopDone(line, st) THEN st ELSE RunWindow(L, line, WindowStep(L, line, st))

\* is_comments without the had_multi_line conjunct of its first clause
is_comments_NoHadMultiLine(L, cfg, line, had_multi_line_, ended_, syn) ==
    \/ syn.stack # <<>> \/ ended_
    \/ /\ \E m \in start_of_comments(L) : StartsWith(line, m)
       /\ syn.quote = None
    \/ /\ \/ syn.quote # None
          \/ \E k \in 1..Len(L.doc_quotes) : StartsWith(line, L.doc_quotes[k][1])
       /\ cfg = "Some(true)"
       /\ syn.quote_is_doc_quote

\* is_comments without its start-of-comment clause
is_comments_NoStartClause(L, cfg, line, had_multi_line_, ended_, syn) ==
    \/ (syn.stack # <<>> \/ ended_) /\ had_multi_line_
    \/ /\ \/ syn.quote # None
          \/ \E k \in 1..Len(L.doc_quotes) : StartsWith(line, L.doc_quotes[k][1])
       /\ cfg = "Some(true)"
       /\ syn.quote_is_doc_quote

\* is_comments whose first clause forgets the still-open comment
is_comments_NoOpenStack(L, cfg, line, had_multi_line_, ended_, syn) ==
    \/ ended_ /\ had_multi_line_
    \/ /\ \E m \in start_of_comments(L) : StartsWith(line, m)
       /\ syn.quote = None
    \/ /\ \/ syn.quote # None
          \/ \E k \in 1..Len(L.doc_quotes) : StartsWith(line, L.doc_quotes[k][1])
       /\ cfg = "Some(true)"
       /\ syn.quote_is_doc_quote

\* is_comments taking any Some(_) for Some(true)
is_comments_AnySome(L, cfg, line, had_multi_line_, ended_, syn) ==
    \/ (syn.stack # <<>> \/ ended_) /\ had_multi_line_
    \/ /\ \E m \in start_of_comments(L) : StartsWith(line, m)
       /\ syn.quote = None
    \/ /\ \/ syn.quote # None
          \/ \E k \in 1..Len(L.doc_quotes) : StartsWith(line, L.doc_quotes[k][1])
       /\ cfg # "None"
       /\ syn.quote_is_doc_quote

\* the classification predicate (lines 215-239)
is_comments(L, cfg, line, had_multi_line_, ended_, syn) ==
    \/ (syn.stack # <<>> \/ ended_) /\ had_multi_line_
    \/ /\ \E m \in start_of_comments(L) : StartsWith(line, m)
       /\ syn.quote = None
    \/ /\ \/ syn.quote # None
          \/ \E k \in 1..Len(L.doc_quotes) : StartsWith(line, L.doc_quotes[k][1])
       /\ cfg = "Some(true)"
       /\ syn.quote_is_doc_quote

Kind(b) == IF b THEN "comment" ELSE "code"


\* ------------------------------------------------------------------ input
\* all byte strings over A of length at most n
Strs(A, n) == UNION {[1..k -> A] : k \in 0..n}

\* the quote literal holding a line comment marker (spec section 8)
QuotedSlashes == <<"x", " ", "=", " ", "\"", "a", " ", "/", "/", " ", "b", "\"">>

\* the nested block comment closed on its own line (spec section 8)
NestedBlock == <<"/", "*", " ", "o", "u", "t", "e", "r", " ", "/", "*", " ", "i", "n", "n", "e", "r", " ", "*", "/", " ", "s", "t", "i", "l", "l", " ", "c", "o", "m", "m", "e", "n", "t", " ", "*", "/">>

\* a line that is one doc-quoted string
DocString == <<"\"", "\"", "\"", "x", "\"", "\"", "\"">>

\* a quote literal holding an escaped quote byte
EscapedQuote == <<"\"", "\\", "\"", "\"">>

\* nested block comments with nothing between the markers
NestedTight == <<"/", "*", "/", "*", "*", "/", "*", "/">>

EmptyDocString == <<"\"", "\"", "\"", "\"", "\"", "\"">>

\* a block comment end marker followed by code that ends in a quote literal
QuoteAfterBlockEnd == <<"*", "/", " ", "\"", "x", "\"">>

Examples(l) ==
    CASE l \in {"Rust", "C"} -> {QuotedSlashes, NestedBlock, NestedTight, EscapedQuote, QuoteAfterBlockEnd}
      [] l = "Python" -> {DocString, EmptyDocString}
      [] OTHER -> {}

Contents(l) == Strs(Alphabet(l), MaxLen) \cup Examples(l)

\* the lines LineIter can yield: terminated by "\n", or the unterminated,
\* non-empty rest of the file as its last line
RawLines(l, last) ==
    {c \o <<NL>> : c \in Contents(l)}
    \cup (IF last THEN Contents(l) \ {<<>>} ELSE {})

\* the blank test without the trim
IsBlankLine_NoTrim(raw_line) == raw_line = <<>>

\* the blank test raw_line.trim().is_empty() (line 155)
IsBlankLine(raw_line) == Trim(raw_line) = <<>>

\* the working copy with the trim applied whatever the language
WorkingLine_AlwaysTrim(l, raw_line) == Trim(raw_line)

\* the working copy of raw_line (line 163)
WorkingLine(l, raw_line) ==
    IF LanguageTable[l].is_fortran THEN raw_line ELSE Trim(raw_line)

\* the column of raw_line at which its text begins: the whitespace the trim of
\* line 163 takes from the front
Indent(raw_line) == Len(raw_line) - Len(TrimStart(raw_line))

\* the raw lines the blank test of line 155 accepts
BlankRawLines ==
    [l \in Languages |-> [last \in BOOLEAN |->
        {r \in RawLines(l, last) : IsBlankLine(r)}]]

\* the working copies of the raw lines that pass the blank test, each with
\* the column its text began at in raw_line; raw lines that differ only in
\* the whitespace trimmed from their end share one entry
LineInputs ==
    [l \in Languages |-> [last \in BOOLEAN |->
        {[line |-> WorkingLine(l, r), indent |-> Indent(r)] :
            r \in {q \in RawLines(l, last) : ~IsBlankLine(q)}}]]

Configs == {"None", "Some(true)", "Some(false)"}

Paths == {"a.rs"}

IoErrors == {"NotFound", "UnexpectedEof"}

\* ----------------------------------------------------------- Summary Sink
\* Stats::new
StatsNew(name) == [name |-> name, lines |-> 0, code |-> 0, comments |-> 0, blanks |-> 0]

\* unprocessed_lines that forgets the line total
unprocessed_lines_CodeOnly(s, count) == [s EXCEPT !.code = @ + count]

unprocessed_lines(s, count) == [s EXCEPT !.code = @ + count, !.lines = @ + count]

code_line(s) == [s EXCEPT !.code = @ + 1]

comment_line(s) == [s EXCEPT !.comments = @ + 1]

blank_line(s) == [s EXCEPT !.blanks = @ + 1]

\* postprocess that leaves the blanks out of the total
postprocess_NoBlanks(s) == [s EXCEPT !.lines = s.code + s.comments]

postprocess(s) == [s EXCEPT !.lines = s.blanks + s.code + s.comments]

\* the sink call for a classified line
ReportLine(s, kind) == IF kind = "comment" THEN comment_line(s) ELSE code_line(s)

\* ------------------------------------------------------------------ state
VARIABLES
    lang,                 \* self: the LanguageType
    config,               \* config.treat_doc_strings_as_comments
    path,                 \* the PathBuf handed to parse
    nlines,               \* the number of lines LineIter yields for the file
    pc,                   \* where the parse is
    remaining,            \* lines the iterator has not yielded yet
    indent,               \* history: the column of raw_line its text began at
    line,                 \* the working copy of the current line (line 163)
    i,                    \* the offset of the window loop
    skip,                 \* bytes of a matched marker still to pass over
    ended_with_comments,
    had_multi_line,
    via,                  \* how the current line was handled
    trace,                \* history: what each examined offset of the line did
    line_start,           \* history: the SyntaxCounter when the line began
    syntax,               \* the SyntaxCounter
    stats,                \* the summary: <<>> before T::new, else <<summary>>
    calls,                \* the sink operations invoked so far, in order
    result                \* what parse returned

vars == <<lang, config, path, nlines, pc, remaining, indent, line, i, skip,
          ended_with_comments, had_multi_line, via, trace, line_start, syntax,
          stats, calls, result>>

input == <<lang, config, path, nlines>>

locals == <<indent, line, i, skip, ended_with_comments, had_multi_line, via, trace,
            line_start>>

L == LanguageTable[lang]

NoResult == [kind |-> "none", path |-> "", error |-> ""]

Init ==
    /\ lang \in Languages
    /\ config \in Configs
    /\ path \in Paths
    /\ nlines \in 0..MaxLines
    /\ pc = "open"
    /\ remaining = nlines
    /\ indent = 0
    /\ line = <<>>
    /\ i = 0
    /\ skip = 0
    /\ ended_with_comments = FALSE
    /\ had_multi_line = FALSE
    /\ via = "none"
    /\ trace = <<>>
    /\ line_start = SyntaxCounterNew
    /\ syntax = SyntaxCounterNew
    /\ stats = <<>>
    /\ calls = <<>>
    /\ result = NoResult

\* ------------------------------------------------------------------ parse
\* File::open failing with the path moved away: the error carries an empty one
OpenFail_LosesPath ==
    /\ pc = "open"
    /\ \E e \in IoErrors : result' = [kind |-> "Err", path |-> "", error |-> e]
    /\ pc' = "done"
    /\ UNCHANGED <<input, remaining, locals, syntax, stats, calls>>

\* the end of parse_lines without the postprocess call
Finish_NoPostprocess ==
    /\ pc = "lines"
    /\ remaining = 0
    /\ result' = [kind |-> "Ok", path |-> "", error |-> ""]
    /\ pc' = "done"
    /\ UNCHANGED <<input, remaining, locals, syntax, stats, calls>>

\* File::open fails (lines 71-74)
OpenFail ==
    /\ pc = "open"
    /\ \E e \in IoErrors : result' = [kind |-> "Err", path |-> path, error |-> e]
    /\ pc' = "done"
    /\ UNCHANGED <<input, remaining, locals, syntax, stats, calls>>

OpenOk ==
    /\ pc = "open"
    /\ pc' = "read"
    /\ UNCHANGED <<input, remaining, locals, syntax, stats, calls, result>>

\* read_to_end fails (lines 79-81)
ReadFail ==
    /\ pc = "read"
    /\ \E e \in IoErrors : result' = [kind |-> "Err", path |-> path, error |-> e]
    /\ pc' = "done"
    /\ UNCHANGED <<input, remaining, locals, syntax, stats, calls>>

ReadOk ==
    /\ pc = "read"
    /\ pc' = "slice"
    /\ UNCHANGED <<input, remaining, locals, syntax, stats, calls, result>>

\* parse_from_slice of an is_blank language (lines 105-110)
ParseFromSliceBlank ==
    /\ pc = "slice"
    /\ is_blank(lang)
    /\ stats' = <<unprocessed_lines(StatsNew(path), remaining)>>
    /\ calls' = Append(calls, "unprocessed")
    /\ remaining' = 0
    /\ result' = [kind |-> "Ok", path |-> "", error |-> ""]
    /\ pc' = "done"
    /\ UNCHANGED <<input, locals, syntax>>

\* parse_lines entered with the SyntaxCounter an earlier parse left behind
ParseFromSliceLines_KeepsSyntax ==
    /\ pc = "slice"
    /\ ~is_blank(lang)
    /\ stats' = <<StatsNew(path)>>
    /\ pc' = "lines"
    /\ UNCHANGED <<input, remaining, locals, syntax, calls, result>>

\* parse_from_slice entering parse_lines (lines 105-112, 151)
ParseFromSliceLines ==
    /\ pc = "slice"
    /\ ~is_blank(lang)
    /\ stats' = <<StatsNew(path)>>
    /\ syntax' = SyntaxCounterNew
    /\ pc' = "lines"
    /\ UNCHANGED <<input, remaining, locals, calls, result>>

\* a whitespace-only line (lines 155-158)
BlankLine ==
    /\ pc = "lines"
    /\ remaining > 0
    /\ \E raw_line \in BlankRawLines[lang][remaining = 1] :
         /\ stats' = <<blank_line(stats[1])>>
         /\ calls' = Append(calls, "blank")
    /\ via' = "blank"
    /\ line_start' = syntax
    /\ remaining' = remaining - 1
    /\ pc' = "continue"
    /\ UNCHANGED <<input, indent, line, i, skip, ended_with_comments, had_multi_line, trace,
                   syntax, result>>

\* a line parse_basic handles, without the continue that follows the report
BasicLine_FallsThrough ==
    /\ pc = "lines"
    /\ remaining > 0
    /\ \E rl \in LineInputs[lang][remaining = 1] : \E ln \in {rl.line} :
         /\ parse_basic(L, syntax, ln)
         /\ line' = ln
         /\ indent' = rl.indent
         /\ stats' = <<ReportLine(stats[1], BasicKind(L, ln))>>
         /\ calls' = Append(calls, BasicKind(L, ln))
    /\ had_multi_line' = (syntax.stack # <<>>)
    /\ via' = "basic"
    /\ line_start' = syntax
    /\ remaining' = remaining - 1
    /\ pc' = "scan"
    /\ UNCHANGED <<input, i, skip, ended_with_comments, trace, syntax, result>>

\* a line parse_basic handles (lines 163-175)
BasicLine ==
    /\ pc = "lines"
    /\ remaining > 0
    /\ \E rl \in LineInputs[lang][remaining = 1] : \E ln \in {rl.line} :
         /\ parse_basic(L, syntax, ln)
         /\ line' = ln
         /\ indent' = rl.indent
         /\ stats' = <<ReportLine(stats[1], BasicKind(L, ln))>>
         /\ calls' = Append(calls, BasicKind(L, ln))
    /\ had_multi_line' = (syntax.stack # <<>>)
    /\ via' = "basic"
    /\ line_start' = syntax
    /\ remaining' = remaining - 1
    /\ pc' = "continue"
    /\ UNCHANGED <<input, i, skip, ended_with_comments, trace, syntax, result>>

\* a line parse_basic declines: enter the window loop (lines 163-177)
BeginScan ==
    /\ pc = "lines"
    /\ remaining > 0
    /\ \E rl \in LineInputs[lang][remaining = 1] : \E ln \in {rl.line} :
         /\ ~parse_basic(L, syntax, ln)
         /\ line' = ln
         /\ indent' = rl.indent
    /\ had_multi_line' = (syntax.stack # <<>>)
    /\ ended_with_comments' = FALSE
    /\ skip' = 0
    /\ i' = 0
    /\ trace' = <<>>
    /\ via' = "scan"
    /\ line_start' = syntax
    /\ remaining' = remaining - 1
    /\ pc' = "scan"
    /\ UNCHANGED <<input, syntax, stats, calls, result>>

\* one iteration of the window loop taking arm b (lines 177-211)
ScanStep(b) ==
    /\ pc = "scan"
    /\ \E st \in {LoopState(i, skip, ended_with_comments, syntax)} :
         /\ Branch(L, line, st) = b
         /\ trace' = IF b = "skip" THEN trace ELSE Append(trace, Examined(L, line, st))
         /\ \E nx \in {WindowStep(L, line, st)} :
              /\ i' = nx.i
              /\ skip' = nx.skip
              /\ ended_with_comments' = nx.ended_with_comments
              /\ syntax' = nx.syntax
              /\ pc' = IF LoopDone(line, nx) THEN "classify" ELSE "scan"
    /\ UNCHANGED <<input, remaining, indent, line, had_multi_line, via, line_start, stats,
                   calls, result>>

ScanSkip == ScanStep("skip")

ScanClose == ScanStep("close")

ScanInQuote == ScanStep("inquote")

ScanOpen == ScanStep("open")

ScanLineComment == ScanStep("linecomment")

ScanNone == ScanStep("none")

\* the classification after the loop (lines 215-247)
Classify ==
    /\ pc = "classify"
    /\ LET kind == Kind(is_comments(L, config, line, had_multi_line,
                                    ended_with_comments, syntax))
       IN /\ stats' = <<ReportLine(stats[1], kind)>>
          /\ calls' = Append(calls, kind)
    /\ pc' = "continue"
    /\ UNCHANGED <<input, remaining, locals, syntax, result>>

\* the back edge of the for loop: the locals of the iteration go out of scope
Continue ==
    /\ pc = "continue"
    /\ indent' = 0
    /\ line' = <<>>
    /\ i' = 0
    /\ skip' = 0
    /\ ended_with_comments' = FALSE
    /\ had_multi_line' = FALSE
    /\ via' = "none"
    /\ trace' = <<>>
    /\ line_start' = SyntaxCounterNew
    /\ pc' = "lines"
    /\ UNCHANGED <<input, remaining, syntax, stats, calls, result>>

\* the end of parse_lines (lines 250-251)
Finish ==
    /\ pc = "lines"
    /\ remaining = 0
    /\ stats' = <<postprocess(stats[1])>>
    /\ calls' = Append(calls, "postprocess")
    /\ result' = [kind |-> "Ok", path |-> "", error |-> ""]
    /\ pc' = "done"
    /\ UNCHANGED <<input, remaining, locals, syntax>>

\* the caller calls parse again, for another file: what the earlier parse
\* returned is the caller's, and the SyntaxCounter it dropped is not replaced
\* until parse_lines makes a new one
ParseAgain ==
    /\ pc = "done"
    /\ lang' \in Languages
    /\ config' \in Configs
    /\ path' \in Paths
    /\ nlines' \in 0..MaxLines
    /\ remaining' = nlines'
    /\ stats' = <<>>
    /\ calls' = <<>>
    /\ result' = NoResult
    /\ pc' = "open"
    /\ UNCHANGED <<locals, syntax>>

Next ==
    \/ OpenFail
    \/ OpenOk
    \/ ReadFail
    \/ ReadOk
    \/ ParseFromSliceBlank
    \/ ParseFromSliceLines
    \/ BlankLine
    \/ BasicLine
    \/ BeginScan
    \/ ScanSkip
    \/ ScanClose
    \/ ScanInQuote
    \/ ScanOpen
    \/ ScanLineComment
    \/ ScanNone
    \/ Classify
    \/ Continue
    \/ Finish
    \/ ParseAgain

Spec == Init /\ [][Next]_vars


\* ----------------------------------------------------------------- claims
Last(q) == q[Len(q)]

Count(q, k) == Cardinality({n \in 1..Len(q) : q[n] = k})

Returned == pc = "done" /\ result.kind = "Ok"

CleanStart == line_start.quote = None /\ line_start.stack = <<>>

\* the line has been classified and reported, and its locals are still live
LineDone == pc = "continue"

\* C1: the summary parse_from_slice returns has lines = code + comments +
\* blanks, for every language (is_blank ones too) and every input
C1_LinesIsSum ==
    Returned =>
        stats[1].lines = stats[1].code + stats[1].comments + stats[1].blanks

C1_Witness ==
    /\ Returned
    /\ ~is_blank(lang)
    /\ stats[1].comments >= 1
    /\ stats[1].blanks >= 1

\* C2: for an is_blank language the summary has code = lines = the number of
\* lines the splitter yields and comments = blanks = 0, and no line goes
\* through the fast path or the window scan
C2_BlankLanguage ==
    is_blank(lang) =>
        /\ via = "none"
        /\ pc \in {"open", "read", "slice", "done"}
        /\ Returned =>
             /\ stats[1].code = nlines
             /\ stats[1].lines = nlines
             /\ stats[1].comments = 0
             /\ stats[1].blanks = 0
             /\ calls = <<"unprocessed">>

C2_Witness == is_blank(lang) /\ Returned /\ nlines >= 2

\* C3 as stated: every parse, of any language, invokes the post-processing
\* step exactly once, and no report follows it
C3_PostprocessOnceAnyLanguage ==
    Returned => Count(calls, "postprocess") = 1 /\ Last(calls) = "postprocess"

\* C3 amended: no report ever follows a post-processing step; a parse of a
\* language that is not is_blank invokes it exactly once, after the last
\* line; a parse of an is_blank language never invokes it
C3_PostprocessOnceUnlessBlank ==
    /\ \A k \in 1..Len(calls) : calls[k] = "postprocess" => k = Len(calls)
    /\ Returned /\ ~is_blank(lang) =>
         /\ Count(calls, "postprocess") = 1
         /\ Len(calls) = nlines + 1
    /\ Returned /\ is_blank(lang) => Count(calls, "postprocess") = 0

C3_Witness == Returned /\ ~is_blank(lang) /\ Len(calls) = 3 /\ Last(calls) = "postprocess"

\* C4: when the byte source cannot be opened or read to the end, parse
\* returns the I/O error with the original path, constructs no summary, and
\* no reporting or post-processing operation has happened
C4_ErrorCarriesPath ==
    /\ result.kind = "Err" =>
         /\ result.path = path
         /\ result.error \in IoErrors
         /\ stats = <<>>
         /\ calls = <<>>
         /\ pc = "done"
    /\ stats # <<>> \/ calls # <<>> => result.kind # "Err"

C4_Witness == result.kind = "Err" /\ result.path = path /\ pc = "done"

\* C5: a whitespace-only line is always counted as blank, whatever quote or
\* block comment is open, and leaves the scan state unchanged; no line that
\* is classified as code or comment is whitespace-only
C5_BlankLine ==
    /\ LineDone /\ via = "blank" =>
         /\ Last(calls) = "blank"
         /\ stats[1].blanks = Count(calls, "blank")
         /\ syntax = line_start
    /\ via \in {"basic", "scan"} => Trim(line) # <<>>
    /\ stats # <<>> => stats[1].blanks = Count(calls, "blank")

C5_Witness == LineDone /\ via = "blank" /\ syntax.stack # <<>>

C5_WitnessQuote == LineDone /\ via = "blank" /\ syntax.quote # None


\* what the window loop and the classification predicate make of ln, started
\* from scan state syn
FullScan(ln, syn) ==
    LET r == RunWindow(L, ln, LoopState(0, 0, FALSE, syn))
    IN [syntax |-> r.syntax,
        kind |-> Kind(is_comments(L, config, ln, syn.stack # <<>>,
                                  r.ended_with_comments, r.syntax))]

\* C6: on every non-blank line parse_basic accepts, the classification it
\* reports and the scan state it leaves are those of the window scan
\* followed by the classification predicate, from the same state
C6_FastPathIsFullScan ==
    LineDone /\ via = "basic" =>
        /\ Last(calls) = FullScan(line, line_start).kind
        /\ syntax = FullScan(line, line_start).syntax

C6_Witness ==
    /\ LineDone
    /\ via = "basic"
    /\ Last(calls) = "comment"
    /\ FullScan(line, line_start).kind = "comment"

MarkerBytes == {"/", "*", "\"", "\\"}

\* ln is: bytes that belong to no marker, then one quote literal that holds
\* the line comment marker and runs to the end of the line
QuoteHoldsLineComment(ln) ==
    \E a \in 1..Len(ln) :
        /\ Len(ln) > a
        /\ ln[a] = "\""
        /\ ln[Len(ln)] = "\""
        /\ \A k \in 1..(a - 1) : ln[k] \notin MarkerBytes
        /\ \A k \in (a + 1)..(Len(ln) - 1) : ln[k] \notin {"\"", "\\"}
        /\ ContainsSlice(SubSeq(ln, a + 1, Len(ln) - 1), Slashes)

\* C7: with line comment marker // and quote marker ", a line whose quote
\* literal holds // (x = "a // b"), scanned from a state with no open quote
\* or comment, is classified as code, records no comment, and leaves no
\* quote open
C7_QuotedLineComment ==
    /\ LineDone
    /\ lang \in {"Rust", "C"}
    /\ CleanStart
    /\ QuoteHoldsLineComment(line)
    => /\ Last(calls) = "code"
       /\ stats[1].comments = Count(SubSeq(calls, 1, Len(calls) - 1), "comment")
       /\ syntax.quote = None
       /\ syntax.stack = <<>>

C7_Witness ==
    /\ LineDone
    /\ CleanStart
    /\ line = QuotedSlashes
    /\ via = "scan"
    /\ Last(calls) = "code"

HasEndMarker(ln) ==
    \E k \in 1..Len(L.multi_line_comments) :
        ContainsSlice(ln, L.multi_line_comments[k][2])

\* the parse is at, or between, lines that lie inside a block comment no end
\* marker closes
InsideUnterminated ==
    \/ pc = "lines" /\ syntax.stack # <<>>
    \/ /\ pc \in {"scan", "classify", "continue"}
       /\ line_start.stack # <<>>
       /\ ~HasEndMarker(line)

\* an upper bound on the steps the parse still takes: it is positive until
\* parse returns
StepsLeft ==
    LET perLine == Len(NestedBlock) + MaxLen + 4
    IN remaining * perLine
       + (CASE pc = "scan" -> Len(line) - i + 3
            [] pc = "classify" -> 3
            [] pc = "continue" -> 2
            [] pc = "lines" -> 1
            [] pc = "done" -> 0
            [] OTHER -> perLine)

\* a line that starts inside a block comment and holds no end marker is
\* classified as comment and leaves the comment open
C9_Classified ==
    LineDone /\ via # "blank" /\ line_start.stack # <<>> /\ ~HasEndMarker(line) =>
        /\ Last(calls) = "comment"
        /\ syntax.stack # <<>>

\* inside such a comment the window loop stays within the line and its skip
\* counter does not underflow, and a parse that ends with the comment open
\* has returned a summary that covers every line
C9_Completes ==
    /\ InsideUnterminated /\ pc = "scan" => i < Len(line) /\ skip >= 0
    /\ InsideUnterminated => remaining >= 0 /\ StepsLeft > 0
    /\ syntax.stack # <<>> /\ pc = "done" /\ Count(calls, "unprocessed") = 0 /\ calls # <<>> =>
         /\ result.kind = "Ok"
         /\ remaining = 0
         /\ Len(calls) = nlines + 1
         /\ Last(calls) = "postprocess"

\* C9: once a block comment is open and no end marker follows, every later
\* non-blank line is classified as comment; the parse keeps advancing through
\* the remaining lines (every step uses up one of the steps left) and
\* returns a summary
C9_UnterminatedBlockComment ==
    /\ [](C9_Classified /\ C9_Completes)
    /\ [][InsideUnterminated => StepsLeft' < StepsLeft]_vars

C9_Witness ==
    /\ LineDone
    /\ via = "scan"
    /\ line_start.stack # <<>>
    /\ ~HasEndMarker(line)
    /\ Last(calls) = "comment"
    /\ Len(calls) = 2

C9_WitnessDone == pc = "done" /\ syntax.stack # <<>> /\ result.kind = "Ok"

\* ln is exactly one string delimited by the doc quote marker m
IsDocStringLine(ln, m) ==
    /\ Len(ln) >= 2 * Len(m)
    /\ StartsWith(ln, m)
    /\ SubSeq(ln, Len(ln) - Len(m) + 1, Len(ln)) = m
    /\ \A k \in (Len(m) + 1)..(Len(ln) - Len(m)) : ln[k] \notin {"\"", "\\"}

\* C10: for a language with a doc quote marker, a line that is one
\* doc-quoted string, scanned from a state with no open quote or comment,
\* is classified as comment when treat_doc_strings_as_comments is
\* Some(true) and as code when it is None or Some(false)
C10_DocStringToggle ==
    /\ LineDone
    /\ CleanStart
    /\ \E k \in 1..Len(L.doc_quotes) : IsDocStringLine(line, L.doc_quotes[k][1])
    => /\ Last(calls) = (IF config = "Some(true)" THEN "comment" ELSE "code")
       /\ syntax.quote = None

C10_Witness ==
    /\ LineDone
    /\ CleanStart
    /\ line = DocString
    /\ config = "Some(true)"
    /\ Last(calls) = "comment"

C10_WitnessNone ==
    /\ LineDone
    /\ CleanStart
    /\ line = DocString
    /\ config = "None"
    /\ Last(calls) = "code"

\* the raw line's text begins with a line comment marker of the language, but
\* after column 0
IndentedLineComment ==
    /\ indent > 0
    /\ \E k \in 1..Len(L.line_comments) : StartsWith(TrimStart(line), L.line_comments[k])

\* C11: for a column-sensitive language (is_fortran), a line whose comment
\* marker stands at the start of the whitespace-stripped line but not at
\* column 0 of the raw line is classified as code, when no quote or block
\* comment is open at the start of the line
C11_ColumnSensitive ==
    /\ LineDone
    /\ via \in {"basic", "scan"}
    /\ L.is_fortran
    /\ CleanStart
    /\ IndentedLineComment
    => Last(calls) = "code"

C11_Witness ==
    /\ LineDone
    /\ via = "basic"
    /\ L.is_fortran
    /\ CleanStart
    /\ IndentedLineComment
    /\ Last(calls) = "code"

C11_WitnessScan ==
    /\ LineDone
    /\ via = "scan"
    /\ L.is_fortran
    /\ CleanStart
    /\ IndentedLineComment
    /\ ended_with_comments
    /\ Last(calls) = "code"

\* parse_lines starts every parse, a later one too, from a new SyntaxCounter
\* and a new summary
C12_FreshScanState ==
    pc = "slice" /\ pc' = "lines" =>
        /\ syntax' = SyntaxCounterNew
        /\ stats' = <<StatsNew(path)>>
        /\ calls' = <<>>

\* what a line is reported as, and the scan state it leaves, are a function of
\* the language, the configuration, the line and the scan state at its start
C12_LineIsFunction ==
    /\ LineDone /\ via = "scan" =>
          /\ Last(calls) = FullScan(line, line_start).kind
          /\ syntax = FullScan(line, line_start).syntax
    /\ LineDone /\ via = "blank" => Last(calls) = "blank" /\ syntax = line_start

\* C12: no scan state of one parse is visible to another: every parse starts
\* its lines from a new SyntaxCounter and a new summary, and each line's
\* report and next scan state depend on nothing but the language, the
\* configuration, the line and the scan state before it, so the same bytes
\* give the same counts
C12_Deterministic ==
    /\ [][C12_FreshScanState]_vars
    /\ []C12_LineIsFunction

\* a parse about to enter parse_lines after a parse that ended inside a block
\* comment
C12_Witness == pc = "slice" /\ ~is_blank(lang) /\ syntax.stack # <<>>

\* a line of a parse, scanned to its end from the new SyntaxCounter
C12_WitnessLine ==
    /\ LineDone
    /\ via = "scan"
    /\ Len(calls) = 1
    /\ line_start = SyntaxCounterNew
    /\ syntax.quote # None

\* the set of the elements of sequence q
Range(q) == {q[k] : k \in 1..Len(q)}

\* the place of a check in the order of lines 186-206
Rank(check) ==
    CASE check = "end_of_quote" -> 1
      [] check = "end_of_multi_line" -> 2
      [] check = "quote" -> 3
      [] check = "multi_line_comment" -> 4
      [] check = "line_comment" -> 5

ClosingChecks == {"end_of_quote", "end_of_multi_line"}

OpeningChecks == {"quote", "multi_line_comment"}

\* what an iteration that examines offset i records of its checks
C13_Step ==
    pc = "scan" /\ skip = 0 =>
        /\ Len(trace') = Len(trace) + 1
        /\ LET r == trace'[Len(trace')]
               tried == Range(r.checks)
           IN /\ r.at = i
              /\ r.checks[1] = "end_of_quote"
              /\ \A j, k \in 1..Len(r.checks) :
                     j < k => Rank(r.checks[j]) < Rank(r.checks[k])
              /\ "end_of_multi_line" \in tried <=> r.matched # "end_of_quote"
              /\ tried \cap OpeningChecks # {} =>
                     /\ ClosingChecks \subseteq tried
                     /\ r.matched \notin ClosingChecks
                     /\ syntax.quote = None
                     /\ "quote" \in tried
              /\ "multi_line_comment" \in tried <=>
                     "quote" \in tried /\ r.matched # "quote"
              /\ "line_comment" \in tried <=>
                     /\ r.matched \in {"line_comment", "none"}
                     /\ syntax.quote = None
              /\ "line_comment" \in tried => Len(r.checks) = 5
              /\ syntax.quote # None /\ r.matched \notin ClosingChecks =>
                     /\ r.checks = <<"end_of_quote", "end_of_multi_line">>
                     /\ r.matched = "none"
                     /\ syntax' = syntax
                     /\ ~ended_with_comments'

\* C13: at one offset the closing checks (quote, then block comment) are
\* attempted before the opening checks (quote, then block comment), and the
\* line comment check last: an opening check only when no closing check
\* matched and no quote is open, the line comment check only when also no
\* opening check matched; while a quote is open and no closing check matches,
\* no opening check and no line comment check is attempted at that offset
C13_CheckOrder == [][C13_Step]_vars

\* inside an open quote, an offset where a line comment marker stands has had
\* the two closing checks and nothing else
C13_Witness ==
    /\ pc \in {"scan", "classify"}
    /\ trace # <<>>
    /\ syntax.quote # None
    /\ Last(trace).checks = <<"end_of_quote", "end_of_multi_line">>
    /\ Last(trace).matched = "none"
    /\ \E k \in 1..Len(L.line_comments) :
          StartsWith(Window(line, Last(trace).at), L.line_comments[k])

\* an offset where every check was attempted and the line comment matched
C13_WitnessAll ==
    /\ pc = "classify"
    /\ trace # <<>>
    /\ Len(Last(trace).checks) = 5
    /\ Last(trace).matched = "line_comment"

\* an offset where the block comment check matched after the quote check
C13_WitnessOpen ==
    /\ pc \in {"scan", "classify"}
    /\ trace # <<>>
    /\ Len(Last(trace).checks) = 4
    /\ Last(trace).matched = "multi_line_comment"

\* what the last examined offset of the line matched
LastMatched == IF trace = <<>> THEN "none" ELSE Last(trace).matched

\* a scanned line that began inside a block comment and whose text does not
\* start with a comment start marker, with doc-strings not treated as comments
StartsInsideComment ==
    /\ LineDone
    /\ via = "scan"
    /\ line_start.stack # <<>>
    /\ ~ \E m \in start_of_comments(L) : StartsWith(line, m)
    /\ config # "Some(true)"

\* C14: a non-blank line at whose start a block comment is open, and whose
\* text does not start with a comment start marker, is classified as comment
\* exactly when after the scan a block comment is still open or the last
\* thing matched on the line was the end of a comment (a block comment end
\* marker or a line comment); with code after the closing marker up to the
\* end of the line it is classified as code
C14_CommentIffEndedInComment ==
    StartsInsideComment =>
        (Last(calls) = "comment" <=>
            \/ syntax.stack # <<>>
            \/ LastMatched \in {"end_of_multi_line", "line_comment"})

\* what the code does: the end of a quote literal counts as the end of a
\* comment too
C14_AsCoded ==
    StartsInsideComment =>
        (Last(calls) = "comment" <=>
            \/ syntax.stack # <<>>
            \/ LastMatched \in {"end_of_multi_line", "line_comment", "end_of_quote"})

\* a scanned line that began inside an ordinary quote literal opened on an
\* earlier line, with doc-strings not treated as comments
StartsInsideQuote ==
    /\ LineDone
    /\ via = "scan"
    /\ line_start.quote # None
    /\ ~line_start.quote_is_doc_quote
    /\ config # "Some(true)"

\* C15: a non-blank line at whose start an ordinary quote is open is not
\* classified as comment on account of comment marker bytes inside the
\* literal, also when its text begins with a line comment or block comment
\* start marker and the quote is closed later on the same line
C15_QuoteContentsNotComment ==
    StartsInsideQuote => Last(calls) = "code"

\* what the code does: such a line is code unless its text starts with a
\* comment start marker and no quote is open once it has been scanned
C15_AsCoded ==
    StartsInsideQuote =>
        (Last(calls) = "comment" <=>
            /\ \E m \in start_of_comments(L) : StartsWith(line, m)
            /\ syntax.quote = None)

\* the offset examined next after the one entry r records: past the marker
\* it matched, or one byte on when nothing was consumed
NextOffset(r) == r.at + (IF r.n > 0 THEN r.n ELSE 1)

\* C16: within a line the offsets examined strictly increase: after a check
\* matches a marker of length N >= 1 at offset i, the next offset at which
\* any check is attempted is i + N, so no byte of a matched marker is read
\* as the start of another marker; every line is examined from offset 0, so
\* a skip pending at the end of a line is not applied to the next line
C16_ForwardOnly ==
    via = "scan" =>
        /\ \A k \in 1..Len(trace) :
              /\ trace[k].at = (IF k = 1 THEN 0 ELSE NextOffset(trace[k - 1]))
              /\ k > 1 => trace[k].at > trace[k - 1].at
              /\ trace[k].matched \in ClosingChecks \cup OpeningChecks =>
                    /\ trace[k].n >= 1
                    /\ trace[k].at + trace[k].n <= Len(line)
        /\ pc = "scan" =>
              /\ skip >= 0
              /\ i + skip = (IF trace = <<>> THEN 0 ELSE NextOffset(Last(trace)))

\* a two-byte marker matched at offset 0 and the next offset examined is 2
C16_Witness ==
    /\ via = "scan"
    /\ Len(trace) >= 2
    /\ trace[1].n = 2
    /\ trace[2].at = 2
    /\ line[2] = "*"
    /\ line[3] = "/"

\* the second line of a file, examined from offset 0 after a line whose last
\* bytes were a matched marker
C16_WitnessNextLine ==
    /\ via = "scan"
    /\ Len(calls) >= 1
    /\ line_start.stack # <<>>
    /\ trace # <<>>
    /\ trace[1].at = 0

\* the offset at which a line comment matched is the last one examined on the
\* line: the scan has stopped there, with no quote and no block comment open
C17_ScanEnded ==
    via = "scan" =>
        \A k \in 1..Len(trace) :
            trace[k].matched = "line_comment" =>
                /\ k = Len(trace)
                /\ pc \in {"classify", "continue"}
                /\ i = trace[k].at
                /\ ended_with_comments
                /\ syntax.quote = None
                /\ syntax.stack = <<>>

\* the iteration in which a line comment matches changes no scan state, and
\* neither does the classification after it
C17_Frame ==
    /\ (/\ pc = "scan"
        /\ Len(trace') > Len(trace)
        /\ trace'[Len(trace')].matched = "line_comment")
       => syntax' = syntax /\ pc' = "classify"
    /\ pc = "classify" => syntax' = syntax /\ pc' = "continue"

\* C17: a line comment match ends the scan of the line and changes no scan
\* state: quote markers and block comment start markers after it open
\* nothing, and the open quote and the comment stack after the line are those
\* of the moment of the match
C17_LineCommentEndsScan == []C17_ScanEnded /\ [][C17_Frame]_vars

\* a line reported after a line comment match that a quote marker or a block
\* comment start marker follows
C17_Witness ==
    /\ LineDone
    /\ via = "scan"
    /\ trace # <<>>
    /\ Last(trace).matched = "line_comment"
    /\ \E j \in (i + 1)..(Len(line) - 1) :
          \E m \in important_syntax(L) : StartsWith(Window(line, j), m)
    /\ syntax = SyntaxCounterNew

\* parse_lines is running: its SyntaxCounter exists
InParseLines == pc \in {"lines", "scan", "classify", "continue"}

\* C18: in every scan state parse_lines reaches, a quote and a block comment
\* are never open together, and for a language without nested comments the
\* comment stack never holds more than one entry
C18_QuoteXorComment ==
    InParseLines =>
        /\ ~(syntax.quote # None /\ syntax.stack # <<>>)
        /\ (~L.allows_nested => Len(syntax.stack) <= 1)

\* inside an open block comment, an offset where a quote marker stands has
\* been examined and has opened nothing
C18_Witness ==
    /\ pc \in {"scan", "classify"}
    /\ trace # <<>>
    /\ syntax.stack # <<>>
    /\ Last(trace).matched = "none"
    /\ \E k \in 1..Len(L.quotes) :
          StartsWith(Window(line, Last(trace).at), L.quotes[k])
    /\ syntax.quote = None

\* without nesting, a second block comment start marker has been examined
\* inside the open comment and the stack still holds one entry
C18_WitnessNoNesting ==
    /\ pc \in {"scan", "classify"}
    /\ ~L.allows_nested
    /\ trace # <<>>
    /\ Last(trace).matched = "none"
    /\ \E k \in 1..Len(L.multi_line_comments) :
          StartsWith(Window(line, Last(trace).at), L.multi_line_comments[k][1])
    /\ Len(syntax.stack) = 1

\* inside an open quote, a block comment start marker has been examined and
\* has pushed nothing
C18_WitnessQuote ==
    /\ pc \in {"scan", "classify"}
    /\ trace # <<>>
    /\ syntax.quote # None
    /\ Last(trace).matched = "none"
    /\ \E k \in 1..Len(L.multi_line_comments) :
          StartsWith(Window(line, Last(trace).at), L.multi_line_comments[k][1])
    /\ syntax.stack = <<>>

\* the lines LineIter has yielded so far
Yielded == nlines - remaining

LineReports == {"code", "comment", "blank"}

\* while parse_lines runs, the sink has had one report for every line yielded,
\* the line being scanned excepted, and nothing else
C19_OncePerLine ==
    InParseLines =>
        /\ Range(calls) \subseteq LineReports
        /\ Len(calls) = (IF pc \in {"scan", "classify"} THEN Yielded - 1 ELSE Yielded)
        /\ stats # <<>>
        /\ stats # <<>> =>
              /\ stats[1].code = Count(calls, "code")
              /\ stats[1].comments = Count(calls, "comment")
              /\ stats[1].blanks = Count(calls, "blank")
              /\ stats[1].code + stats[1].comments + stats[1].blanks = Len(calls)

\* lines are taken one at a time: a line is yielded only when the line before
\* it has been reported, it starts from the scan state that line left, and
\* reports are only ever added at the end
C19_InOrder ==
    /\ pc = "lines" /\ pc' \in {"scan", "continue"} =>
          /\ Len(calls) = Yielded
          /\ remaining' = remaining - 1
          /\ line_start' = syntax
    /\ pc = "continue" => syntax' = syntax /\ calls' = calls
    /\ InParseLines =>
          /\ Len(calls') \in {Len(calls), Len(calls) + 1}
          /\ SubSeq(calls', 1, Len(calls)) = calls

\* C19: for a language that is not is_blank, every line yielded is reported
\* to the sink exactly once, as one of code, comment or blank, in input
\* order and only after the scan state changes of the lines before it; so
\* before postprocess code + comments + blanks is the number of lines yielded
C19_EveryLineOnce == []C19_OncePerLine /\ [][C19_InOrder]_vars

\* every line of a file of MaxLines lines has been reported, one of each kind
\* among them, and postprocess has not run yet
C19_Witness ==
    /\ pc = "lines"
    /\ remaining = 0
    /\ nlines = MaxLines
    /\ Len(calls) = MaxLines
    /\ stats[1].code + stats[1].comments + stats[1].blanks = MaxLines
    /\ stats[1].lines = 0
    /\ Last(calls) = "comment"
    /\ calls[1] = "code"

====
